---- MODULE Spec2Model ----
(***************************************************************************)
(* Model of the WATI chat-log tools: the buffered ingestion script          *)
(* (ingest.py), the single-pass template ingestion script (file1.py) and    *)
(* the conversation list / detail queries of the dashboard (viewer.py).     *)
(*                                                                          *)
(* Text is modelled as a sequence of tokens.  A token is one character      *)
(* class the code's regular expressions and string tests tell apart:        *)
(*   SP   a literal space                 NL   a line feed                  *)
(*   CL   a colon                         QT   a double quote               *)
(*   LT   any other printable character   TPL  the word  Template           *)
(*   WSENT  the words  was sent.          a bracketed timestamp of the      *)
(*   shape [dd/dd/dddd dd:dd:dd] (HdrA, HdrB valid dates, HdrX not).        *)
(*                                                                          *)
(* Spec is a run of ingest.py over a directory, SpecParse the scan of one   *)
(* export file over a wide set of contents, SpecViewer a run of the         *)
(* dashboard's queries over a store, SpecBatch a run of either ingestion    *)
(* script (ingest.py or file1.py) over a directory.                         *)
(***************************************************************************)
EXTENDS Integers, Sequences, FiniteSets, TLC

VARIABLES
    files,                \* the directory: entries in os.scandir order
    fi,                   \* index of the entry the for loop is at
    pc,                   \* position of the ingestion script
    lines,                \* lines of the open file not read yet
    current_timestamp,    \* timestamp of the pending block, or None
    current_text_buffer,  \* text lines of the pending block
    batch_data,           \* rows parsed and not yet flushed
    db,                   \* rows of the messages table
    total_count,          \* rows counted by the in-loop flush
    user_msg_count,       \* rows whose sender is not 'Template'
    log,                  \* names printed by the except branch
    reported,             \* the total printed at the end, or None
    collection,           \* documents of the dashboard's store
    request,              \* the query the dashboard is about to make
    store_up,             \* whether the store answers
    vpc,                  \* position of the dashboard script
    outcome,              \* what the query gave its caller, or None
    count,                \* file1.py: messages counted so far
    errors                \* file1.py: names of the files whose reading failed

ingestVars == <<files, fi, pc, lines, current_timestamp, current_text_buffer,
                batch_data, db, total_count, user_msg_count, log, reported>>
viewerVars == <<collection, request, store_up, vpc, outcome>>
file1Vars == <<count, errors>>
vars == <<ingestVars, viewerVars, file1Vars>>

\* ------------------------------------------------------------ bounds
\* Longest free part of a generated export file, in tokens.
MaxLen == 4
\* Most files in the scanned directory.
MaxFiles == 2
\* Records that trigger the in-loop flush (50000 in ingest.py, 10000 in
\* file1.py; scaled down).
FlushThreshold == 2
\* Most documents in a store of plain messages.
MaxDocs == 4
\* Most documents in a store that has every kind of sender.
MaxMixedDocs == 1

\* ------------------------------------------------------------ tokens
SP == " "
NL == "NL"
CL == ":"
QT == "QT"
LT == "a"
TPL == "Template"
WSENT == "was sent."
HdrA == "[01/02/2025 10:00:00]"
HdrB == "[02/29/2024 23:59:59]"
HdrX == "[13/40/2025 99:99:99]"

\* The digits between the brackets: <<month, day, year, hour, minute, second>>.
TsDigits(h) ==
    CASE h = HdrA -> <<1, 2, 2025, 10, 0, 0>>
      [] h = HdrB -> <<2, 29, 2024, 23, 59, 59>>
      [] h = HdrX -> <<13, 40, 2025, 99, 99, 99>>

HeaderTokens == {HdrA, HdrB, HdrX}
Whitespace == {SP, NL}
NoneVal == "None"
\* No query has been made yet.
NoOutcome == [status |-> "none", value |-> <<>>, error |-> FALSE]

\* ------------------------------------------------------------ str helpers
RECURSIVE LStrip(_)
LStrip(s) ==
    IF s # <<>> /\ Head(s) \in Whitespace THEN LStrip(Tail(s)) ELSE s

RECURSIVE RStrip(_)
RStrip(s) ==
    IF s # <<>> /\ s[Len(s)] \in Whitespace
    THEN RStrip(SubSeq(s, 1, Len(s) - 1))
    ELSE s

\* str.strip()
Strip(s) == RStrip(LStrip(s))

\* str.startswith(p)
StartsWith(s, p) == Len(s) >= Len(p) /\ SubSeq(s, 1, Len(p)) = p

\* s[i:] in 1-based positions
From(s, i) == SubSeq(s, i, Len(s))

\* Positions where sub occurs in s.
Occurrences(s, sub) ==
    {i \in 1..(Len(s) - Len(sub) + 1) : SubSeq(s, i, i + Len(sub) - 1) = sub}

Min(S) == CHOOSE x \in S : \A y \in S : x <= y
Max(S) == CHOOSE x \in S : \A y \in S : x >= y

\* "\n".join(parts)
RECURSIVE JoinNL(_)
JoinNL(parts) ==
    IF parts = <<>> THEN <<>>
    ELSE IF Len(parts) = 1 THEN parts[1]
    ELSE parts[1] \o <<NL>> \o JoinNL(Tail(parts))

\* Iterating a text file: each line keeps its line feed, the last may have none.
RECURSIVE SplitLines(_)
SplitLines(c) ==
    IF c = <<>> THEN <<>>
    ELSE LET nls == {i \in 1..Len(c) : c[i] = NL}
         IN IF nls = {} THEN <<c>>
            ELSE <<SubSeq(c, 1, Min(nls))>> \o SplitLines(From(c, Min(nls) + 1))

\* ------------------------------------------------------------ timestamps
IsLeap(y) == (y % 4 = 0 /\ y % 100 # 0) \/ y % 400 = 0

DaysInMonth(m, y) ==
    IF m = 2 THEN (IF IsLeap(y) THEN 29 ELSE 28)
    ELSE IF m \in {4, 6, 9, 11} THEN 30 ELSE 31

\* datetime.strptime(raw, "%m/%d/%Y %H:%M:%S") returns (TRUE) or raises (FALSE).
StrptimeOk(d) ==
    /\ d[1] \in 1..12
    /\ d[3] \in 1..9999
    /\ d[2] >= 1 /\ d[2] <= DaysInMonth(d[1], d[3])
    /\ d[4] \in 0..23
    /\ d[5] \in 0..59
    /\ d[6] \in 0..59

\* The text as matched: month/day/year order.
RawTime(h) == [fmt |-> "%m/%d/%Y %H:%M:%S", v |-> TsDigits(h)]

\* dt.strftime("%Y-%m-%d %H:%M:%S"): year-month-day order.
Strftime(d) ==
    [fmt |-> "%Y-%m-%d %H:%M:%S", v |-> <<d[3], d[1], d[2], d[4], d[5], d[6]>>]

\* A failed parse is passed off as a parsed one.
StandardizeTimeAlwaysIso(h) == Strftime(TsDigits(h))

\* try: strptime / strftime   except ValueError: keep the raw text
StandardizeTime(h) ==
    IF StrptimeOk(TsDigits(h)) THEN Strftime(TsDigits(h)) ELSE RawTime(h)

\* ------------------------------------------------------------ classification
TemplatePrefix == <<TPL, SP, QT>>

\* Positions j of a closing quote for
\*   ^Template\s+"(.*?)"(?:\s+was sent\.|$)   (DOTALL)
\* on a text that starts with  Template " : the quote is followed by
\* whitespace and  was sent. , or it ends the text.
ClosingQuotes(t) ==
    {j \in 4..Len(t) :
        /\ t[j] = QT
        /\ \/ j = Len(t)
           \/ \E k \in (j + 2)..Len(t) :
                 /\ t[k] = WSENT
                 /\ \A w \in (j + 1)..(k - 1) : t[w] \in Whitespace}

\* match.group(1) of the non-greedy search, else the whole text.
TemplateBody(t) ==
    IF ClosingQuotes(t) = {} THEN t
    ELSE SubSeq(t, 4, Min(ClosingQuotes(t)) - 1)

ColonSpace == <<CL, SP>>

\* The text is split at the last ": " instead of the first.
SplitSenderLast(t) ==
    LET i == Max(Occurrences(t, ColonSpace))
    IN <<Strip(SubSeq(t, 1, i - 1)), Strip(From(t, i + 2))>>

\* clean_text.split(": ", 1), both parts stripped.
SplitSender(t) ==
    LET i == Min(Occurrences(t, ColonSpace))
    IN <<Strip(SubSeq(t, 1, i - 1)), Strip(From(t, i + 2))>>

TemplateTag == <<TPL>>
SystemTag == <<"System">>

Row(filename, sender, body, ts, status) ==
    [filename |-> filename, sender |-> sender, message_body |-> body,
     timestamp |-> ts, status |-> status]

\* The ": " test is made before the  Template "  test.
process_message_block_ColonFirst(filename, raw_timestamp, full_text) ==
    LET iso_time == StandardizeTime(raw_timestamp)
        clean_text == Strip(full_text)
    IN IF Occurrences(clean_text, ColonSpace) # {}
       THEN Row(filename, SplitSender(clean_text)[1], SplitSender(clean_text)[2],
                iso_time, "received")
       ELSE IF StartsWith(clean_text, TemplatePrefix)
       THEN Row(filename, TemplateTag, TemplateBody(clean_text), iso_time, "sent")
       ELSE Row(filename, SystemTag, clean_text, iso_time, "system")

process_message_block(filename, raw_timestamp, full_text) ==
    LET iso_time == StandardizeTime(raw_timestamp)
        clean_text == Strip(full_text)
    IN IF StartsWith(clean_text, TemplatePrefix)
       THEN Row(filename, TemplateTag, TemplateBody(clean_text), iso_time, "sent")
       ELSE IF Occurrences(clean_text, ColonSpace) # {}
       THEN Row(filename, SplitSender(clean_text)[1], SplitSender(clean_text)[2],
                iso_time, "received")
       ELSE Row(filename, SystemTag, clean_text, iso_time, "system")

\* ------------------------------------------------------------ main loop
\* timestamp_pattern.match(line):  ^\[(ts)\]\s+(.*)
timestamp_pattern(line) ==
    /\ Len(line) >= 2
    /\ line[1] \in HeaderTokens
    /\ line[2] \in Whitespace

\* match.group(2): what follows the whitespace run, without the line feed.
Group2(line) ==
    LET rest == LStrip(Tail(line))
    IN IF rest # <<>> /\ rest[Len(rest)] = NL
       THEN SubSeq(rest, 1, Len(rest) - 1)
       ELSE rest

\* entry.name.endswith(".txt") and "requirements" not in entry.name
Eligible(name) ==
    /\ name[Len(name)] = ".txt"
    /\ \A i \in 1..Len(name) : name[i] # "requirements"

\* if current_timestamp: join, process_message_block, batch_data.append
SavePending(batch, name, ts, buf) ==
    IF ts # NoneVal
    THEN Append(batch, process_message_block(name, ts, JoinNL(buf)))
    ELSE batch

CountPending(n, name, ts, buf) ==
    IF ts # NoneVal /\ process_message_block(name, ts, JoinNL(buf)).sender # TemplateTag
    THEN n + 1
    ELSE n

\* for entry in entries: an entry the filter rejects
SkipEntry ==
    /\ pc = "dir"
    /\ fi <= Len(files)
    /\ ~Eligible(files[fi].name)
    /\ fi' = fi + 1
    /\ UNCHANGED <<files, pc, lines, current_timestamp, current_text_buffer,
                   batch_data, db, total_count, user_msg_count, log, reported>>
    /\ UNCHANGED <<viewerVars, file1Vars>>

\* with open(entry.path, ...) as f: the buffer variables are reset
OpenFile ==
    /\ pc = "dir"
    /\ fi <= Len(files)
    /\ Eligible(files[fi].name)
    /\ pc' = "scan"
    /\ lines' = SplitLines(files[fi].content)
    /\ current_timestamp' = NoneVal
    /\ current_text_buffer' = <<>>
    /\ UNCHANGED <<files, fi, batch_data, db, total_count, user_msg_count, log,
                   reported>>
    /\ UNCHANGED <<viewerVars, file1Vars>>

\* The new block's text is added to the old buffer instead of replacing it.
StartBufferAppend(buf, line) == Append(buf, Strip(Group2(line)))

\* current_text_buffer = [match.group(2).strip()]
StartBuffer(buf, line) == <<Strip(Group2(line))>>

\* for line in f: a line the pattern matches
ScanHeader ==
    /\ pc = "scan"
    /\ lines # <<>>
    /\ timestamp_pattern(Head(lines))
    /\ batch_data' = SavePending(batch_data, files[fi].name, current_timestamp,
                                 current_text_buffer)
    /\ user_msg_count' = CountPending(user_msg_count, files[fi].name,
                                      current_timestamp, current_text_buffer)
    /\ current_timestamp' = Head(lines)[1]
    /\ current_text_buffer' = StartBuffer(current_text_buffer, Head(lines))
    /\ lines' = Tail(lines)
    /\ UNCHANGED <<files, fi, pc, db, total_count, log, reported>>
    /\ UNCHANGED <<viewerVars, file1Vars>>

\* else: if current_timestamp: current_text_buffer.append(line.strip())
ContinueBuffer(ts, buf, line) ==
    IF ts # NoneVal THEN Append(buf, Strip(line)) ELSE buf

\* for line in f: a line the pattern does not match
ScanContinuation ==
    /\ pc = "scan"
    /\ lines # <<>>
    /\ ~timestamp_pattern(Head(lines))
    /\ current_text_buffer' = ContinueBuffer(current_timestamp, current_text_buffer,
                                             Head(lines))
    /\ lines' = Tail(lines)
    /\ UNCHANGED <<files, fi, pc, current_timestamp, batch_data, db, total_count,
                   user_msg_count, log, reported>>
    /\ UNCHANGED <<viewerVars, file1Vars>>

\* The block still pending at the end of the file is not saved.
SaveLastMissing(batch, name, ts, buf) == batch

\* End of file: save the last message in the buffer
SaveLast(batch, name, ts, buf) == SavePending(batch, name, ts, buf)

EndOfFile ==
    /\ pc = "scan"
    /\ lines = <<>>
    /\ batch_data' = SaveLast(batch_data, files[fi].name, current_timestamp,
                                 current_text_buffer)
    /\ user_msg_count' = CountPending(user_msg_count, files[fi].name,
                                      current_timestamp, current_text_buffer)
    /\ pc' = "batch"
    /\ UNCHANGED <<files, fi, lines, current_timestamp, current_text_buffer, db,
                   total_count, log, reported>>
    /\ UNCHANGED <<viewerVars, file1Vars>>

\* open() raises: except Exception prints the name, the loop goes on
OpenError ==
    /\ pc = "dir"
    /\ fi <= Len(files)
    /\ Eligible(files[fi].name)
    /\ log' = Append(log, files[fi].name)
    /\ fi' = fi + 1
    /\ UNCHANGED <<files, pc, lines, current_timestamp, current_text_buffer,
                   batch_data, db, total_count, user_msg_count, reported>>
    /\ UNCHANGED <<viewerVars, file1Vars>>

\* Reading the next line raises (an I/O error part-way through the file):
\* the rows already appended to batch_data stay there.
ReadError ==
    /\ pc = "scan"
    /\ log' = Append(log, files[fi].name)
    /\ fi' = fi + 1
    /\ pc' = "dir"
    /\ UNCHANGED <<files, lines, current_timestamp, current_text_buffer,
                   batch_data, db, total_count, user_msg_count, reported>>
    /\ UNCHANGED <<viewerVars, file1Vars>>

\* if len(batch_data) >= 50000: executemany, commit, count, clear
BatchInsert ==
    /\ pc = "batch"
    /\ IF Len(batch_data) >= FlushThreshold
       THEN /\ db' = db \o batch_data
            /\ total_count' = total_count + Len(batch_data)
            /\ batch_data' = <<>>
       ELSE UNCHANGED <<db, total_count, batch_data>>
    /\ fi' = fi + 1
    /\ pc' = "dir"
    /\ UNCHANGED <<files, lines, current_timestamp, current_text_buffer,
                   user_msg_count, log, reported>>
    /\ UNCHANGED <<viewerVars, file1Vars>>

\* Final Insert: if batch_data: executemany, commit (batch_data is kept)
FinalInsert ==
    /\ pc = "dir"
    /\ fi > Len(files)
    /\ db' = IF batch_data # <<>> THEN db \o batch_data ELSE db
    /\ pc' = "report"
    /\ UNCHANGED <<files, fi, lines, current_timestamp, current_text_buffer,
                   batch_data, total_count, user_msg_count, log, reported>>
    /\ UNCHANGED <<viewerVars, file1Vars>>

\* print(f"DONE! Total Messages: {total_count + len(batch_data)}")
Report ==
    /\ pc = "report"
    /\ reported' = total_count + Len(batch_data)
    /\ pc' = "done"
    /\ UNCHANGED <<files, fi, lines, current_timestamp, current_text_buffer,
                   batch_data, db, total_count, user_msg_count, log>>
    /\ UNCHANGED <<viewerVars, file1Vars>>

\* ------------------------------------------------------------ inputs
Strings(alphabet, n) == UNION {[1..k -> alphabet] : k \in 0..n}

FreeAlphabet == {HdrA, SP, NL, LT, CL, QT, WSENT}
Prefixes == {<<>>, <<HdrB, SP>>, <<HdrX, SP>>, <<LT, NL, HdrB, SP>>,
             <<HdrB, SP, TPL, SP, QT>>, <<HdrX, SP, TPL, SP, QT>>}
Suffixes == {<<>>, <<QT, SP, WSENT>>, <<CL, SP, LT>>}

\* Export files: a start, any tokens, an end.
ParseContents ==
    {p \o f \o s : p \in Prefixes, f \in Strings(FreeAlphabet, MaxLen), s \in Suffixes}

\* Whole files for the directory run: no message, one message, two messages.
SampleContents ==
    {<<LT, NL>>,
     <<HdrA, SP, LT, CL, SP, LT, NL>>,
     <<HdrA, SP, TPL, SP, QT, LT, QT, SP, WSENT, NL, HdrB, SP, LT, NL, LT>>}

Names == {<<"chat1", ".txt">>, <<"chat2", ".txt">>, <<"chat3", ".txt">>,
          <<"requirements", ".txt">>, <<"notes", ".md">>}

Directories ==
    {d \in UNION {[1..k -> [name : Names, content : SampleContents]] : k \in 0..MaxFiles} :
        \A i, j \in 1..Len(d) : i # j => d[i].name # d[j].name}

IngestStart ==
    /\ fi = 1
    /\ pc = "dir"
    /\ lines = <<>>
    /\ current_timestamp = NoneVal
    /\ current_text_buffer = <<>>
    /\ batch_data = <<>>
    /\ db = <<>>
    /\ total_count = 0
    /\ user_msg_count = 0
    /\ log = <<>>
    /\ reported = NoneVal
    /\ count = 0
    /\ errors = <<>>

ViewerIdle ==
    /\ collection = <<>>
    /\ request = [kind |-> "none"]
    /\ store_up = TRUE
    /\ vpc = "start"
    /\ outcome = NoOutcome

\* One run of ingest.py over a directory.
Init ==
    /\ files \in Directories
    /\ IngestStart
    /\ ViewerIdle

Next ==
    \/ SkipEntry
    \/ OpenFile
    \/ OpenError
    \/ ScanHeader
    \/ ScanContinuation
    \/ ReadError
    \/ EndOfFile
    \/ BatchInsert
    \/ FinalInsert
    \/ Report

Spec == Init /\ [][Next]_vars

\* The scan of one export file, read without error.
InitParse ==
    /\ files \in {<<[name |-> <<"chat1", ".txt">>, content |-> c]>> : c \in ParseContents}
    /\ IngestStart
    /\ ViewerIdle

NextParse ==
    \/ OpenFile
    \/ ScanHeader
    \/ ScanContinuation
    \/ EndOfFile

SpecParse == InitParse /\ [][NextParse]_vars

\* ------------------------------------------------------------ what a file says
\* The blocks of a file, read off its lines ls (not off the loop's buffer).
HeaderLinesOf(ls) == {i \in 1..Len(ls) : timestamp_pattern(ls[i])}

\* Line number of the k-th header line.
KthHeaderOf(ls, k) ==
    CHOOSE i \in HeaderLinesOf(ls) : Cardinality({j \in HeaderLinesOf(ls) : j <= i}) = k

\* Last line of the block that starts at line i.
BlockEndOf(ls, i) == Min({j \in HeaderLinesOf(ls) : j > i} \cup {Len(ls) + 1}) - 1

\* The continuation lines of the k-th block, each trimmed.
ContinuationLinesOf(ls, k) ==
    LET i == KthHeaderOf(ls, k)
    IN [j \in 1..(BlockEndOf(ls, i) - i) |-> Strip(ls[i + j])]

BlockStampOf(ls, k) == ls[KthHeaderOf(ls, k)][1]

\* Header text, then the continuation lines, joined by line feeds.
BlockTextOf(ls, k) ==
    JoinNL(<<Strip(Group2(ls[KthHeaderOf(ls, k)]))>> \o ContinuationLinesOf(ls, k))

\* The rows a file of this name and content stands for.
ExpectedRows(name, c) ==
    LET ls == SplitLines(c)
    IN [k \in 1..Cardinality(HeaderLinesOf(ls)) |->
           process_message_block(name, BlockStampOf(ls, k), BlockTextOf(ls, k))]

\* The same, for the file the loop is at.
FileName == files[fi].name
Content == files[fi].content
FileLines == SplitLines(Content)
NumBlocks == Cardinality(HeaderLinesOf(FileLines))
KthHeader(k) == KthHeaderOf(FileLines, k)
ContinuationLines(k) == ContinuationLinesOf(FileLines, k)
BlockStamp(k) == BlockStampOf(FileLines, k)
BlockText(k) == BlockTextOf(FileLines, k)

Contains(s, sub) == sub = <<>> \/ Occurrences(s, sub) # {}

\* The current file was read to its end without error.
Scanned == pc = "batch"

\* Rows the current file has produced.
FileRecords == SelectSeq(batch_data, LAMBDA r : r.filename = FileName)

\* ------------------------------------------------------------ claims
\* C1: when a file has been read to its end, it has produced exactly one
\* record per line matching the header pattern, in the order of those lines
\* (the k-th record carries the k-th header line's timestamp), the block
\* pending at end of input included.
C1_OneRecordPerHeader ==
    Scanned =>
        /\ Len(FileRecords) = NumBlocks
        /\ \A k \in 1..NumBlocks :
              FileRecords[k].timestamp = StandardizeTime(BlockStamp(k))

\* C1 witness: two blocks with different timestamps, the last one followed by
\* a continuation line and no later header, both emitted.
C1_Witness ==
    /\ Scanned
    /\ NumBlocks = 2
    /\ BlockStamp(1) # BlockStamp(2)
    /\ ContinuationLines(2) # <<>>
    /\ Len(FileRecords) = 2

\* C2 as stated: every block yields one record whose body contains its
\* continuation lines (trimmed) joined by line feeds.  Blocks whose sender
\* comes out empty (C5) are left aside.
C2_BodyContainsContinuations ==
    Scanned =>
        /\ Len(FileRecords) = NumBlocks
        /\ \A k \in 1..NumBlocks :
              FileRecords[k].sender # <<>> =>
                 Contains(FileRecords[k].message_body,
                          Strip(JoinNL(ContinuationLines(k))))

\* C2 amended: every block yields the single record that classifying its
\* text gives, the text being the header line's trailing text followed by all
\* continuation lines, each trimmed, joined by line feeds in file order; a
\* block classified as system keeps all of them in its body; lines before
\* the first header line are in no block and so in no record.
C2_BlockReconstructed ==
    Scanned =>
        /\ Len(FileRecords) = NumBlocks
        /\ \A k \in 1..NumBlocks :
              /\ FileRecords[k] =
                     process_message_block(FileName, BlockStamp(k), BlockText(k))
              /\ FileRecords[k].status = "system" =>
                     /\ FileRecords[k].message_body = Strip(BlockText(k))
                     /\ Contains(FileRecords[k].message_body,
                                 Strip(JoinNL(ContinuationLines(k))))

\* C2 witness: lines before the first header, then a block of a header line
\* and two continuation lines, all in the one record's body.
C2_Witness ==
    /\ Scanned
    /\ NumBlocks = 1
    /\ KthHeader(1) > 1
    /\ Len(ContinuationLines(1)) = 2
    /\ ContinuationLines(1)[1] # <<>>
    /\ ContinuationLines(1)[2] # <<>>
    /\ Len(FileRecords) = 1
    /\ Contains(FileRecords[1].message_body, JoinNL(ContinuationLines(1)))

\* ---- C3
\* Text between line feeds, the line feeds dropped.
RECURSIVE SplitNL(_)
SplitNL(x) ==
    LET nls == {i \in 1..Len(x) : x[i] = NL}
    IN IF nls = {} THEN <<x>>
       ELSE <<SubSeq(x, 1, Min(nls) - 1)>> \o SplitNL(From(x, Min(nls) + 1))

\* x with the spaces next to its line feeds removed.
TrimLines(x) ==
    LET p == SplitNL(x)
        n == Len(p)
    IN JoinNL([i \in 1..n |->
                 IF n = 1 THEN p[i]
                 ELSE IF i = 1 THEN RStrip(p[i])
                 ELSE IF i = n THEN LStrip(p[i])
                 ELSE Strip(p[i])])

\* The file is one block  [valid timestamp] Template "X" was sent.
IsTemplateFile ==
    /\ Len(Content) >= 8
    /\ SubSeq(Content, 1, 5) = <<HdrB, SP, TPL, SP, QT>>
    /\ From(Content, Len(Content) - 2) = <<QT, SP, WSENT>>

TemplateX == SubSeq(Content, 6, Len(Content) - 3)

\* X holds no  " was sent.  of its own and no line that is a header line.
WellFormedX ==
    /\ NumBlocks = 1
    /\ ~\E j \in 1..Len(TemplateX) : \E k \in (j + 2)..Len(TemplateX) :
           /\ TemplateX[j] = QT
           /\ TemplateX[k] = WSENT
           /\ \A w \in (j + 1)..(k - 1) : TemplateX[w] \in Whitespace

IsTemplateText(k) == StartsWith(Strip(BlockText(k)), TemplatePrefix)

TemplateWins ==
    \A k \in 1..NumBlocks :
        IsTemplateText(k) =>
           /\ FileRecords[k].sender = TemplateTag
           /\ FileRecords[k].status = "sent"

\* C3 as stated: a well-formed template block yields exactly one record with
\* body X, sender Template, status sent and the normalized timestamp; a
\* block starting with  Template "  is a template even if it holds ": ".
C3_TemplateBodyIsX ==
    Scanned =>
        /\ Len(FileRecords) = NumBlocks
        /\ TemplateWins
        /\ (IsTemplateFile /\ WellFormedX) =>
              FileRecords = <<Row(FileName, TemplateTag, TemplateX,
                                  Strftime(TsDigits(HdrB)), "sent")>>

\* C3 amended: the body is X with every physical line trimmed, that is with
\* the spaces next to X's line breaks removed (equal to X when X has none).
C3_TemplateBodyIsTrimmedX ==
    Scanned =>
        /\ Len(FileRecords) = NumBlocks
        /\ TemplateWins
        /\ (IsTemplateFile /\ WellFormedX) =>
              FileRecords = <<Row(FileName, TemplateTag, TrimLines(TemplateX),
                                  Strftime(TsDigits(HdrB)), "sent")>>

\* C3 witness: a well-formed template block whose X spans two lines and
\* holds ": ", emitted as one template record.
C3_Witness ==
    /\ Scanned
    /\ IsTemplateFile
    /\ WellFormedX
    /\ Len(SplitNL(TemplateX)) = 2
    /\ Contains(TemplateX, ColonSpace)
    /\ Len(FileRecords) = 1
    /\ FileRecords[1].sender = TemplateTag
    /\ FileRecords[1].message_body = TrimLines(TemplateX)

\* ---- C4
\* Record r is text t split at its first ": ", both parts trimmed.
SplitAtFirst(r, t) ==
    \E i \in Occurrences(t, ColonSpace) :
        /\ \A j \in Occurrences(t, ColonSpace) : i <= j
        /\ r.sender = Strip(SubSeq(t, 1, i - 1))
        /\ r.message_body = Strip(From(t, i + 2))
        /\ r.status = "received"

\* C4 as stated: every block whose text holds ": " is split at the first
\* ": " into sender and body, with status received.
C4_SplitAtFirstColon ==
    Scanned =>
        /\ Len(FileRecords) = NumBlocks
        /\ \A k \in 1..NumBlocks :
              Contains(Strip(BlockText(k)), ColonSpace) =>
                 SplitAtFirst(FileRecords[k], Strip(BlockText(k)))

\* C4 amended: every block whose text holds ": " and does not start with
\* Template "  is split at the first ": " into sender and body, with status
\* received.
C4_SplitAtFirstColonUnlessTemplate ==
    Scanned =>
        /\ Len(FileRecords) = NumBlocks
        /\ \A k \in 1..NumBlocks :
              (Contains(Strip(BlockText(k)), ColonSpace) /\ ~IsTemplateText(k)) =>
                 SplitAtFirst(FileRecords[k], Strip(BlockText(k)))

\* C4 witness: a block  Name: body  whose body holds a second ": ".
C4_Witness ==
    /\ Scanned
    /\ NumBlocks = 1
    /\ Cardinality(Occurrences(Strip(BlockText(1)), ColonSpace)) = 2
    /\ Len(FileRecords) = 1
    /\ FileRecords[1].status = "received"
    /\ FileRecords[1].sender = <<LT>>
    /\ Contains(FileRecords[1].message_body, ColonSpace)

\* ---- C5
\* C5 as stated: every record emitted has a non-empty source id (filename)
\* and a non-empty sender.
C5_SenderAndSourceNonEmpty ==
    \A i \in 1..Len(batch_data) :
        /\ batch_data[i].filename # <<>>
        /\ batch_data[i].sender # <<>>

\* ---- C6
\* C6: a block whose header timestamp is not a calendar date/time still
\* yields its record; the record's timestamp is the text as matched, and
\* sender, body and status are those the same text gets with a valid one.
C6_InvalidTimestampKeptRaw ==
    Scanned =>
        /\ Len(FileRecords) = NumBlocks
        /\ \A k \in 1..NumBlocks :
              BlockStamp(k) = HdrX =>
                 LET v == process_message_block(FileName, HdrA, BlockText(k))
                 IN /\ FileRecords[k].timestamp =
                          [fmt |-> "%m/%d/%Y %H:%M:%S", v |-> <<13, 40, 2025, 99, 99, 99>>]
                    /\ FileRecords[k].sender = v.sender
                    /\ FileRecords[k].message_body = v.message_body
                    /\ FileRecords[k].status = v.status

\* C6 witness: [13/40/2025 99:99:99] Name: hi  emitted as a received record
\* with the raw timestamp.
C6_Witness ==
    /\ Scanned
    /\ NumBlocks >= 1
    /\ BlockStamp(1) = HdrX
    /\ Len(FileRecords) >= 1
    /\ FileRecords[1].timestamp.fmt = "%m/%d/%Y %H:%M:%S"
    /\ FileRecords[1].status = "received"
    /\ FileRecords[1].sender = <<LT>>
    /\ FileRecords[1].message_body = <<LT>>

\* ---- C7
RowsOf(name) == SelectSeq(db, LAMBDA r : r.filename = name)
Logged(name) == \E i \in 1..Len(log) : log[i] = name

\* Files that raised no error are ingested whole.
OthersIngested ==
    pc = "done" =>
        \A i \in 1..Len(files) :
            (Eligible(files[i].name) /\ ~Logged(files[i].name)) =>
               RowsOf(files[i].name) = ExpectedRows(files[i].name, files[i].content)

\* C7 as stated: when the run is over, a file whose reading raised an error
\* has no row in the store, and every other eligible file is there whole.
C7_FailedFileLeavesNoRows ==
    pc = "done" =>
        \A i \in 1..Len(files) :
            Eligible(files[i].name) =>
               IF Logged(files[i].name)
               THEN RowsOf(files[i].name) = <<>>
               ELSE RowsOf(files[i].name) =
                       ExpectedRows(files[i].name, files[i].content)

\* ------------------------------------------------------------ dashboard
\* File names and message bodies are token sequences too; Lower folds case.
FileA == <<"111", "-", "ann">>
FileB == <<"222">>
Lower(tok) == IF tok = "Y" THEN "y" ELSE tok
LowerSeq(t) == [i \in 1..Len(t) |-> Lower(t[i])]

\* {"$regex": term, "$options": "i"} on a text field
RegexMatch(term, text) == Occurrences(LowerSeq(text), LowerSeq(term)) # {}

\* Dates are day numbers; a time is a day and a tick of the clock in it.
Days == {0, 1}
Ticks == {0, 1}
Times == {d * Cardinality(Ticks) + k : d \in Days, k \in Ticks}

\* datetime.combine(date, time.min) and datetime.combine(date, time.max)
StartOfDay(d) == d * Cardinality(Ticks) + Min(Ticks)
EndOfDay(d) == d * Cardinality(Ticks) + Max(Ticks)

\* collection.distinct("filename", {"sender": filter_teammate})
TouchedFiles(coll, teammate) ==
    {coll[i].filename : i \in {j \in 1..Len(coll) : coll[j].sender = teammate}}

\* match_stage: whether doc passes the $match stage of request rq
MatchStage(coll, rq, doc) ==
    /\ doc.timestamp >= StartOfDay(rq.date_range[1])
    /\ doc.timestamp <= EndOfDay(rq.date_range[2])
    /\ rq.hide_templates => doc.sender # "Template"
    /\ rq.search_term # <<>> =>
          \/ RegexMatch(rq.search_term, doc.filename)
          \/ RegexMatch(rq.search_term, doc.message_body)
    /\ rq.filter_teammate # NoneVal =>
          doc.filename \in TouchedFiles(coll, rq.filter_teammate)
    /\ (rq.patient_mode_on /\ rq.staff_list # {}) => doc.sender \notin rq.staff_list

Candidates(coll, rq) == {i \in 1..Len(coll) : MatchStage(coll, rq, coll[i])}

\* Orders a $sort by timestamp may give the documents S: ties in any order.
SortedByTime(coll, S, descending) ==
    {p \in [1..Cardinality(S) -> S] :
        /\ \A i, j \in 1..Cardinality(S) : i # j => p[i] # p[j]
        /\ \A i, j \in 1..Cardinality(S) :
              i < j => IF descending
                       THEN coll[p[i]].timestamp >= coll[p[j]].timestamp
                       ELSE coll[p[i]].timestamp <= coll[p[j]].timestamp}

\* The group takes the last document of the sorted input instead of the first.
GroupStageLast(coll, order, f) ==
    LET members == {k \in 1..Len(order) : coll[order[k]].filename = f}
        d == coll[order[Max(members)]]
    IN [filename |-> f, preview |-> d.message_body, last_sender |-> d.sender,
        last_active |-> d.timestamp, msg_count |-> Cardinality(members)]

\* $group by filename: $first of body, sender, timestamp, and $sum 1
GroupStage(coll, order, f) ==
    LET members == {k \in 1..Len(order) : coll[order[k]].filename = f}
        d == coll[order[Min(members)]]
    IN [filename |-> f, preview |-> d.message_body, last_sender |-> d.sender,
        last_active |-> d.timestamp, msg_count |-> Cardinality(members)]

\* Orders the second $sort (last_active descending) may give the groups G.
SortedGroups(G) ==
    {p \in [1..Cardinality(G) -> G] :
        /\ \A i, j \in 1..Cardinality(G) : i # j => p[i] # p[j]
        /\ \A i, j \in 1..Cardinality(G) :
              i < j => p[i].last_active >= p[j].last_active}

\* x.split('-')[0] if '-' in x else x
Phone(x) ==
    IF \E i \in 1..Len(x) : x[i] = "-"
    THEN SubSeq(x, 1, Min({i \in 1..Len(x) : x[i] = "-"}) - 1)
    ELSE x

WithPhone(g) ==
    [filename |-> g.filename, preview |-> g.preview, last_sender |-> g.last_sender,
     last_active |-> g.last_active, msg_count |-> g.msg_count,
     Phone |-> Phone(g.filename)]

\* The data frames get_data_qa may return (the store's tie orders differ).
get_data_qa(coll, rq) ==
    LET cand == Candidates(coll, rq)
        names == {coll[i].filename : i \in cand}
    IN {[k \in 1..(IF rq.limit < Len(sorted) THEN rq.limit ELSE Len(sorted)) |->
            WithPhone(sorted[k])] :
          sorted \in UNION {SortedGroups({GroupStage(coll, order, f) : f \in names}) :
                              order \in SortedByTime(coll, cand, TRUE)}}

\* The data frames get_chat_history may return.
get_chat_history(coll, filename) ==
    {[k \in 1..Len(order) |-> coll[order[k]]] :
        order \in SortedByTime(coll, {i \in 1..Len(coll) : coll[i].filename = filename},
                               FALSE)}

\* get_all_senders: distinct senders but Template, System, Bot
get_all_senders(coll) ==
    {coll[i].sender : i \in 1..Len(coll)} \ {"Template", "System", "Bot"}

Returned(v) == [status |-> "returned", value |-> v, error |-> FALSE]
\* The store's exception leaves the function.
Raised == [status |-> "raised", value |-> <<>>, error |-> FALSE]
\* st.error(...) then st.stop()
Stopped == [status |-> "stopped", value |-> <<>>, error |-> TRUE]

\* collection = get_collection(): ping, or report the error and stop
Connect ==
    /\ vpc = "start"
    /\ IF store_up
       THEN vpc' = "ready" /\ UNCHANGED outcome
       ELSE vpc' = "stopped" /\ outcome' = Stopped
    /\ UNCHANGED <<collection, request, store_up>>
    /\ UNCHANGED <<ingestVars, file1Vars>>

\* The store stops answering.
StoreFails ==
    /\ store_up
    /\ store_up' = FALSE
    /\ UNCHANGED <<collection, request, vpc, outcome>>
    /\ UNCHANGED <<ingestVars, file1Vars>>

\* all_senders = get_all_senders()   (sidebar), no try around it
SendersQuery ==
    /\ vpc = "ready"
    /\ IF store_up
       THEN vpc' = "sidebar" /\ UNCHANGED outcome
       ELSE vpc' = "crashed" /\ outcome' = Raised
    /\ UNCHANGED <<collection, request, store_up>>
    /\ UNCHANGED <<ingestVars, file1Vars>>

\* df = get_data_qa(...)   (list view), no try around it
ListQuery ==
    /\ vpc = "sidebar"
    /\ outcome = NoOutcome
    /\ request.kind = "list"
    /\ IF store_up
       THEN \E df \in get_data_qa(collection, request) : outcome' = Returned(df)
       ELSE outcome' = Raised
    /\ vpc' = "shown"
    /\ UNCHANGED <<collection, request, store_up>>
    /\ UNCHANGED <<ingestVars, file1Vars>>

\* df = get_chat_history(...)   (chat view), no try around it
DetailQuery ==
    /\ vpc = "sidebar"
    /\ outcome = NoOutcome
    /\ request.kind = "detail"
    /\ IF store_up
       THEN \E df \in get_chat_history(collection, request.filename) :
               outcome' = Returned(df)
       ELSE outcome' = Raised
    /\ vpc' = "shown"
    /\ UNCHANGED <<collection, request, store_up>>
    /\ UNCHANGED <<ingestVars, file1Vars>>

\* ---- dashboard inputs
DateRanges == {r \in Days \X Days : r[1] <= r[2]}

\* Messages of two patients: every body of A's is x, every body of B's is Y.
PlainDocs ==
    {[filename |-> f, sender |-> "Pat",
      message_body |-> IF f = FileA THEN <<"x">> ELSE <<"Y">>, timestamp |-> t] :
        f \in {FileA, FileB}, t \in Times}
MixedDocs ==
    [filename : {FileA, FileB}, sender : {"Template", "Ann", "Pat"},
     message_body : {<<"x">>, <<"Y">>}, timestamp : Times]

\* A store is a bag of documents: one sequence stands for all its orders.
Rank(doc) ==
    (((IF doc.filename = FileA THEN 0 ELSE 1) * 3
      + (CASE doc.sender = "Template" -> 0 [] doc.sender = "Ann" -> 1 [] OTHER -> 2)) * 2
     + (IF doc.message_body = <<"x">> THEN 0 ELSE 1)) * Cardinality(Times)
    + doc.timestamp

Stores(docs, n) ==
    {c \in UNION {[1..k -> docs] : k \in 0..n} :
        \A i \in 1..(Len(c) - 1) : Rank(c[i]) <= Rank(c[i + 1])}

ListRequest(limit, term, hide, staff, teammate, patient, range) ==
    [kind |-> "list", limit |-> limit, search_term |-> term, hide_templates |-> hide,
     staff_list |-> staff, filter_teammate |-> teammate, patient_mode_on |-> patient,
     date_range |-> range]

PlainRequests ==
    {ListRequest(l, t, FALSE, {}, NoneVal, FALSE, r) :
        l \in {1, 2}, t \in {<<>>, <<"y">>}, r \in DateRanges}
    \cup {[kind |-> "detail", filename |-> f] : f \in {FileA, FileB}}

MixedRequests ==
    {ListRequest(2, t, h, {"Ann"}, tm, pm, r) :
        t \in {<<>>, <<"y">>, <<"222">>}, h \in BOOLEAN, tm \in {NoneVal, "Ann"},
        pm \in BOOLEAN, r \in DateRanges}

IngestIdle ==
    /\ files = <<>>
    /\ IngestStart

InitViewer ==
    /\ \/ collection \in Stores(PlainDocs, MaxDocs) /\ request \in PlainRequests
       \/ collection \in Stores(MixedDocs, MaxMixedDocs) /\ request \in MixedRequests
    /\ store_up = TRUE
    /\ vpc = "start"
    /\ outcome = NoOutcome
    /\ IngestIdle

NextViewer ==
    \/ Connect
    \/ StoreFails
    \/ SendersQuery
    \/ ListQuery
    \/ DetailQuery

\* One run of the dashboard script over a store.
SpecViewer == InitViewer /\ [][NextViewer]_vars

\* ---- C8
ListReturned == request.kind = "list" /\ outcome.status = "returned"

\* Documents of the candidate set that belong to file f.
GroupOf(f) == {i \in Candidates(collection, request) : collection[i].filename = f}
CandidateFiles == {collection[i].filename : i \in Candidates(collection, request)}
LatestIn(f) == Max({collection[i].timestamp : i \in GroupOf(f)})

\* C8: the list query returns one summary per file of the candidate set,
\* most recently active first, cut to the limit (dropping the least recent);
\* a summary's count is the size of its group, and its preview, last sender
\* and last active time are those of one record of the group, one with the
\* greatest timestamp.
C8_ListSummaries ==
    ListReturned =>
        LET rows == outcome.value
            n == Cardinality(CandidateFiles)
        IN /\ Len(rows) = IF request.limit < n THEN request.limit ELSE n
           /\ \A i, j \in 1..Len(rows) : i # j => rows[i].filename # rows[j].filename
           /\ \A i, j \in 1..Len(rows) : i < j => rows[i].last_active >= rows[j].last_active
           /\ \A i \in 1..Len(rows) :
                 /\ rows[i].filename \in CandidateFiles
                 /\ rows[i].msg_count = Cardinality(GroupOf(rows[i].filename))
                 /\ rows[i].last_active = LatestIn(rows[i].filename)
                 /\ \E d \in GroupOf(rows[i].filename) :
                       /\ collection[d].timestamp = rows[i].last_active
                       /\ collection[d].message_body = rows[i].preview
                       /\ collection[d].sender = rows[i].last_sender
           /\ \A f \in CandidateFiles :
                 (\A i \in 1..Len(rows) : rows[i].filename # f) =>
                    \A i \in 1..Len(rows) : rows[i].last_active >= LatestIn(f)

\* C8 witness: A has 3 messages, the latest after B's only one; the list is
\* [A, B] and A's count is 3.
C8_Witness ==
    /\ ListReturned
    /\ Cardinality(GroupOf(FileA)) = 3
    /\ Cardinality(GroupOf(FileB)) = 1
    /\ Cardinality({collection[i].timestamp : i \in GroupOf(FileA)}) = 3
    /\ LatestIn(FileA) > LatestIn(FileB)
    /\ Len(outcome.value) = 2
    /\ outcome.value[1].filename = FileA
    /\ outcome.value[1].msg_count = 3
    /\ outcome.value[2].filename = FileB

\* ---- C9
\* The search term matches a body of B's and nothing of any other file.
TermMatchesOnlyB ==
    /\ request.search_term # <<>>
    /\ \E i \in 1..Len(collection) :
          /\ collection[i].filename = FileB
          /\ RegexMatch(request.search_term, collection[i].message_body)
    /\ \A i \in 1..Len(collection) :
          collection[i].filename # FileB =>
             /\ ~RegexMatch(request.search_term, collection[i].message_body)
             /\ ~RegexMatch(request.search_term, collection[i].filename)

\* C9 as stated: a list query with a search term that matches only B's body
\* (and no other filter set) returns exactly B, whatever the date range.
C9_SearchIgnoresDateRange ==
    (/\ ListReturned
     /\ TermMatchesOnlyB
     /\ ~request.hide_templates
     /\ request.filter_teammate = NoneVal
     /\ ~request.patient_mode_on) =>
        {outcome.value[i].filename : i \in 1..Len(outcome.value)} = {FileB}

\* ---- C10
\* C10 as stated: a list or detail query that has run has returned to its
\* caller, it has not raised (a store that does not answer gives an empty
\* result and a reported error).
C10_QueryNeverRaises ==
    vpc = "shown" =>
        \/ outcome.status = "returned"
        \/ outcome.status = "reported" /\ outcome.value = <<>> /\ outcome.error

\* ------------------------------------------------------------ file1.py
\* First position after i that holds no whitespace (Len + 1 if there is
\* none): where a run  \s+  that starts at i + 1 stops.
AfterSpaces(c, i) ==
    Min({j \in (i + 1)..Len(c) : c[j] \notin Whitespace} \cup {Len(c) + 1})

\* \s+ and then the token tok, right after position i.
Then(c, i, tok) ==
    LET j == AfterSpaces(c, i)
    IN j > i + 1 /\ j <= Len(c) /\ c[j] = tok

\* Position of the opening quote of a match that starts at i.
OpenQuote(c, i) == AfterSpaces(c, AfterSpaces(c, i))

\* Quotes after the opening one that  "\s+was sent\.  matches at.
Closers(c, i) ==
    {k \in (OpenQuote(c, i) + 1)..Len(c) : c[k] = QT /\ Then(c, k, WSENT)}

\* pattern  \[(ts)\]\s+Template\s+"(.*?)"\s+was sent\.  (DOTALL) matches at i.
pattern(c, i) ==
    /\ c[i] \in HeaderTokens
    /\ Then(c, i, TPL)
    /\ Then(c, AfterSpaces(c, i), QT)
    /\ Closers(c, i) # {}

\* match.group(2): up to the first quote that closes (non-greedy).
MatchBody(c, i) == SubSeq(c, OpenQuote(c, i) + 1, Min(Closers(c, i)) - 1)

\* match.end(), as the position of the last token matched.
MatchEnd(c, i) == AfterSpaces(c, Min(Closers(c, i)))

\* try: strptime / strftime   except ValueError: keep the original
timestamp_iso(h) ==
    IF StrptimeOk(TsDigits(h)) THEN Strftime(TsDigits(h)) ELSE RawTime(h)

\* re.finditer(pattern, content, re.DOTALL) from position pos on: leftmost
\* match first, the search resumes after it; one message per match.
RECURSIVE finditer(_, _, _)
finditer(content, filename, pos) ==
    LET starts == {i \in pos..Len(content) : pattern(content, i)}
    IN IF starts = {} THEN <<>>
       ELSE LET i == Min(starts)
            IN <<Row(filename, TemplateTag, Strip(MatchBody(content, i)),
                     timestamp_iso(content[i]), "sent")>>
               \o finditer(content, filename, MatchEnd(content, i) + 1)

parse_wati_log(content, filename) == finditer(content, filename, 1)

\* entry.name.endswith(".txt") and entry.is_file()
File1Eligible(name) == name[Len(name)] = ".txt"

\* The flushed rows stay in the batch.
File1AfterInsertKept(batch) == batch

\* batch_data = []
File1AfterInsert(batch) == <<>>

\* for entry in entries: an entry the filter rejects
File1SkipEntry ==
    /\ pc = "file1:dir"
    /\ fi <= Len(files)
    /\ ~File1Eligible(files[fi].name)
    /\ fi' = fi + 1
    /\ UNCHANGED <<files, pc, lines, current_timestamp, current_text_buffer,
                   batch_data, db, total_count, user_msg_count, log, reported>>
    /\ UNCHANGED <<viewerVars, file1Vars>>

\* content = f.read(); parse_wati_log; batch_data.append for each message;
\* count += len(parsed_messages)
File1ParseFile ==
    /\ pc = "file1:dir"
    /\ fi <= Len(files)
    /\ File1Eligible(files[fi].name)
    /\ LET parsed_messages == parse_wati_log(files[fi].content, files[fi].name)
       IN /\ batch_data' = batch_data \o parsed_messages
          /\ count' = count + Len(parsed_messages)
    /\ pc' = "file1:batch"
    /\ UNCHANGED <<files, fi, lines, current_timestamp, current_text_buffer, db,
                   total_count, user_msg_count, log, reported, errors>>
    /\ UNCHANGED viewerVars

\* open() or f.read() raises (no such file, undecodable bytes): the message
\* goes to errors, nothing of the file reaches batch_data, the loop goes on
File1ReadError ==
    /\ pc = "file1:dir"
    /\ fi <= Len(files)
    /\ File1Eligible(files[fi].name)
    /\ errors' = Append(errors, files[fi].name)
    /\ fi' = fi + 1
    /\ UNCHANGED <<files, pc, lines, current_timestamp, current_text_buffer,
                   batch_data, db, total_count, user_msg_count, log, reported,
                   count>>
    /\ UNCHANGED viewerVars

\* if len(batch_data) >= 10000: executemany, commit, clear
File1BatchInsert ==
    /\ pc = "file1:batch"
    /\ IF Len(batch_data) >= FlushThreshold
       THEN /\ db' = db \o batch_data
            /\ batch_data' = File1AfterInsert(batch_data)
       ELSE UNCHANGED <<db, batch_data>>
    /\ fi' = fi + 1
    /\ pc' = "file1:dir"
    /\ UNCHANGED <<files, lines, current_timestamp, current_text_buffer,
                   total_count, user_msg_count, log, reported>>
    /\ UNCHANGED <<viewerVars, file1Vars>>

\* Insert remaining records: if batch_data: executemany, commit,
\* count += len(batch_data)
File1InsertRemaining ==
    /\ pc = "file1:dir"
    /\ fi > Len(files)
    /\ IF batch_data # <<>>
       THEN /\ db' = db \o batch_data
            /\ count' = count + Len(batch_data)
       ELSE UNCHANGED <<db, count>>
    /\ pc' = "file1:report"
    /\ UNCHANGED <<files, fi, lines, current_timestamp, current_text_buffer,
                   batch_data, total_count, user_msg_count, log, reported, errors>>
    /\ UNCHANGED viewerVars

\* print(f"Done! Processed {count} messages total from all files.")
File1Report ==
    /\ pc = "file1:report"
    /\ reported' = count
    /\ pc' = "file1:done"
    /\ UNCHANGED <<files, fi, lines, current_timestamp, current_text_buffer,
                   batch_data, db, total_count, user_msg_count, log>>
    /\ UNCHANGED <<viewerVars, file1Vars>>

\* ------------------------------------------------------------ either script
\* A file of two template messages, the first on two lines, the second with
\* a date no calendar has.
TwoTemplates ==
    <<HdrA, SP, TPL, SP, QT, LT, NL, LT, QT, SP, WSENT, NL,
      HdrX, SP, TPL, SP, QT, LT, QT, SP, WSENT, NL>>

BatchContents == SampleContents \cup {TwoTemplates}

BatchDirectories ==
    {d \in UNION {[1..k -> [name : Names, content : BatchContents]] : k \in 0..MaxFiles} :
        \A i, j \in 1..Len(d) : i # j => d[i].name # d[j].name}

\* file1.py opens the database file it finds (CREATE TABLE IF NOT EXISTS):
\* the table may hold the rows of an earlier run, here of a file that has
\* left the folder since.
EarlierName == <<"chat0", ".txt">>
EarlierRow == Row(EarlierName, TemplateTag, <<LT>>, Strftime(TsDigits(HdrA)), "sent")
EarlierStores == {<<>>, <<EarlierRow>>}

\* ingest.py removes the database file and starts fresh; file1.py does not.
InitBatch ==
    /\ files \in BatchDirectories
    /\ \/ pc = "dir" /\ db = <<>>
       \/ pc = "file1:dir" /\ db \in EarlierStores
    /\ fi = 1
    /\ lines = <<>>
    /\ current_timestamp = NoneVal
    /\ current_text_buffer = <<>>
    /\ batch_data = <<>>
    /\ total_count = 0
    /\ user_msg_count = 0
    /\ log = <<>>
    /\ reported = NoneVal
    /\ count = 0
    /\ errors = <<>>
    /\ ViewerIdle

NextBatch ==
    \/ SkipEntry
    \/ OpenFile
    \/ OpenError
    \/ ScanHeader
    \/ ScanContinuation
    \/ ReadError
    \/ EndOfFile
    \/ BatchInsert
    \/ FinalInsert
    \/ Report
    \/ File1SkipEntry
    \/ File1ParseFile
    \/ File1ReadError
    \/ File1BatchInsert
    \/ File1InsertRemaining
    \/ File1Report

\* One run of ingest.py or of file1.py over a directory.
SpecBatch == InitBatch /\ [][NextBatch]_vars

\* ---- C11
RunOver == pc \in {"done", "file1:done"}

\* Rows the table held before the run started (none under ingest.py).
EarlierRows == SelectSeq(db, LAMBDA r : r.filename = EarlierName)

\* Rows the run has inserted, in insertion order.
Inserted == SubSeq(db, Len(EarlierRows) + 1, Len(db))

InitialSegments(s) == {SubSeq(s, 1, k) : k \in 0..Len(s)}

\* What the parser can have produced for entry i, given how its reading
\* went: nothing for an entry the filter rejects; all its records for a file
\* read to its end; for a file whose reading failed, nothing under file1.py
\* (it parses after the read) and the records of the blocks finished before
\* the failure under ingest.py.
ProducedFor(i) ==
    IF pc = "file1:done"
    THEN IF File1Eligible(files[i].name)
            /\ \A k \in 1..Len(errors) : errors[k] # files[i].name
         THEN {parse_wati_log(files[i].content, files[i].name)}
         ELSE {<<>>}
    ELSE IF ~Eligible(files[i].name) THEN {<<>>}
         ELSE IF Logged(files[i].name)
         THEN InitialSegments(ExpectedRows(files[i].name, files[i].content))
         ELSE {ExpectedRows(files[i].name, files[i].content)}

\* The same for the entries from i on, in directory order.
RECURSIVE ProducedFrom(_)
ProducedFrom(i) ==
    IF i > Len(files) THEN {<<>>}
    ELSE {a \o b : a \in ProducedFor(i), b \in ProducedFrom(i + 1)}

\* C11: when a run of either script is over, the rows it has inserted are
\* exactly the records the parser produced for the files it went through,
\* each once and in production order (directory order, then order in the
\* file), whether they went in by the in-loop flush or by the final insert.
C11_BatchingPreservesRecords ==
    RunOver => Inserted \in ProducedFrom(1)

\* C11 witness: a run of ingest.py over two files in which the in-loop flush
\* inserted the two records of the first file and the final insert the one
\* record of the second.
C11_Witness ==
    /\ pc = "done"
    /\ total_count = FlushThreshold
    /\ Len(batch_data) = 1
    /\ Len(db) = FlushThreshold + 1
    /\ db[Len(db)].filename # db[1].filename

\* ---- C12
\* C12 as stated: the total printed at the end of a run of either script is
\* the number of rows the run has inserted into the messages table.
C12_ReportedEqualsInserted ==
    RunOver => reported = Len(Inserted)

\* The same, of ingest.py alone.
IngestReportedEqualsInserted ==
    pc = "done" => reported = Len(Inserted)

\* What file1.py prints: the rows inserted, and once more those of the
\* final insert.
File1ReportedTwiceRemaining ==
    pc = "file1:done" => reported = Len(Inserted) + Len(batch_data)

====
